---- MODULE Spec2Model ----
(***************************************************************************)
(* Memory-management core of rCore (src/src/memory.rs) and the file        *)
(* syscalls (src/kernel/src/syscall/fs.rs).                                *)
(*                                                                         *)
(* Spec   : frame allocator, active-table lock, page-fault handler.        *)
(* SpecFs : the file syscalls of one process.                              *)
(***************************************************************************)
EXTENDS Integers, Sequences, FiniteSets, TLC

VARIABLES
    arch,         \* build target: "x86_64" (COW-capable) or "riscv"
    bitmap,       \* FRAME_ALLOCATOR: set of allocated frame ids
    frame_lock,   \* lock bit of the FRAME_ALLOCATOR spin mutex
    table_lock,   \* lock bit of the ACTIVE_TABLE spin mutex
    pc,           \* position of each execution context
    interrupted,  \* position a fault interrupted ("none": not in the handler)
    found,        \* Option<id> picked by BitAlloc::alloc inside the lock
    aret,         \* <<Option<addr>>>: what the last alloc_frame returned
    target,       \* argument of the running dealloc_frame
    held,         \* frame addresses each context got from alloc_frame
    rt,           \* history: bitmap before the last alloc_frame, while no
                  \* other allocator call has happened since
    freed,        \* history: the frame the last dealloc_frame released, while
                  \* the bitmap has not changed since
    faddr,        \* faulting address handed to page_fault_handler
    fret,         \* Option<bool>: result of the last page_fault_handler
    maps,         \* page table of each address space
    contents,     \* contents of each physical frame
    rc,           \* reference count of COW-shared frames
    panicked,     \* the kernel panicked
    files,        \* proc.files: the fd table of the process
    inodes,       \* the file system: every inode, the root directory first
    ubytes,       \* user memory: the byte cells
    ustat,        \* user memory: the Stat the process keeps
    udentry,      \* user memory: the DirEntry the process keeps
    call,         \* the last syscall, and whether its user pointer was valid
    ret,          \* the SysResult of the last syscall
    seen,         \* history: the names sys_getdirentry has returned since the
                  \* program set its dentry's offset to 0, and their directory
    heap_base,    \* start of the kernel heap (0: init_heap has not run)
    chunks,       \* kernel heap: the chunks in use, by address
    others,       \* heap chunks owned by kernel objects other than stacks
    stacks,       \* every Stack alloc_stack has returned, in call order
    heap_oom,     \* the heap could not serve an allocation: the kernel aborted
    proc_lock,    \* lock bit of the Mutex<Process> behind process()
    tpc,          \* position of each thread of the process inside sys_open
    targs,        \* the path pointer and flags each thread was called with
    tinode,       \* Option<inode> the thread's sys_open resolved
    tfd,          \* Option<fd> the thread's fd search found
    tres,         \* <<SysResult>>: what the thread's last sys_open returned
    handed        \* history: the fds the threads' sys_open calls returned

memvars == <<arch, bitmap, frame_lock, table_lock, pc, interrupted, found,
             aret, target, held, rt, freed, faddr, fret, maps, contents,
             rc, panicked>>

fsvars == <<files, inodes, ubytes, ustat, udentry, call, ret, seen>>

heapvars == <<heap_base, chunks, others, stacks, heap_oom>>

\* What the memory core leaves alone, and what the file syscalls leave alone.
procvars == <<proc_lock, tpc, targs, tinode, tfd, tres, handed>>

nonmemvars == <<fsvars, heapvars, procvars>>
nonfsvars == <<memvars, heapvars, procvars>>
nonheapvars == <<memvars, fsvars, procvars>>

vars == <<memvars, fsvars, heapvars, procvars>>

(***************************************************************************)
(* Bounds and constants                                                    *)
(***************************************************************************)
\* Capacity of the frame bitmap (BitAlloc64K in the kernel).
NFrames == 4

PAGE_SIZE == 4096

\* Execution contexts; context c runs in address space c.
Ctx == {1, 2}

\* Virtual pages of an address space.
VPages == 0..2

FrameIds == 0..(NFrames - 1)

\* Option<T> as a set with at most one element.
None == {}
Some(x) == {x}
Unwrap(o) == CHOOSE x \in o : TRUE

Min(S) == CHOOSE x \in S : \A y \in S : x <= y

MEMORY_OFFSET == IF arch = "riscv" THEN 1073741824 ELSE 0

CowBuiltEverywhere == TRUE

\* #[cfg(target_arch = "x86_64")]: the COW extension is built on x86_64 only.
CowCapable == arch = "x86_64"

(***************************************************************************)
(* Frame id <-> physical address                                           *)
(***************************************************************************)
FrameAddrNoScale(id) == id + MEMORY_OFFSET

FrameAddrOffByOne(id) == (id + 1) * PAGE_SIZE + MEMORY_OFFSET

\* alloc_frame: |id| id * PAGE_SIZE + MEMORY_OFFSET
FrameAddr(id) == id * PAGE_SIZE + MEMORY_OFFSET

FrameIdNoOffset(tgt) == tgt \div PAGE_SIZE

\* dealloc_frame: (target - MEMORY_OFFSET) / PAGE_SIZE
FrameId(tgt) == (tgt - MEMORY_OFFSET) \div PAGE_SIZE

\* Physical frame number of an address: the frame a store to it lands in.
PFN(a) == a \div PAGE_SIZE

PhysFrames == {PFN(id * PAGE_SIZE + MEMORY_OFFSET) : id \in FrameIds}

\* The frame ids whose physical address is a.
IdsAt(a) == {id \in FrameIds : id * PAGE_SIZE + MEMORY_OFFSET = a}

NoResult == <<>>
Returned(o) == <<o>>

(***************************************************************************)
(* BitAlloc                                                                *)
(***************************************************************************)
\* BitAlloc::alloc, search: the lowest free bit, None when exhausted.
BitAllocFind(bm) ==
    LET free == FrameIds \ bm
    IN  IF free = {} THEN None ELSE Some(Min(free))

\* BitAlloc::alloc, mark.
BitAllocMark(bm, o) == bm \cup o

\* BitAlloc::dealloc.
BitAllocDealloc(bm, id) == bm \ {id}

(***************************************************************************)
(* spin::Mutex                                                             *)
(***************************************************************************)
FrameLockIgnored == TRUE

\* FRAME_ALLOCATOR.lock() returns once the lock bit is clear.
FrameLockFree == ~frame_lock

\* ACTIVE_TABLE.lock() returns once the lock bit is clear.
TableLockFree == ~table_lock

(***************************************************************************)
(* Positions                                                               *)
(***************************************************************************)
InHandler(c) == interrupted[c] # "none"

\* The context holds the guard it got from active_table() outside the handler.
ThreadGuard(c) == pc[c] = "table" \/ (interrupted[c] = "table" /\ pc[c] # "dead")

\* The handler running on the context holds the guard of active_table().
HandlerGuard(c) ==
    \/ pc[c] \in {"pf_handle", "pf_call_alloc", "pf_unwrap"}
    \/ InHandler(c) /\ pc[c] = "af_mark"

Guards == {<<c, "thread">> : c \in {d \in Ctx : ThreadGuard(d)}}
            \cup {<<c, "handler">> : c \in {d \in Ctx : HandlerGuard(d)}}

Unmapped == [present |-> FALSE, target |-> 0, writable |-> FALSE, cow |-> FALSE]

Entry(tgt, w, cow) == [present |-> TRUE, target |-> tgt, writable |-> w, cow |-> cow]

VAddr(p) == p * PAGE_SIZE

PageOf(addr) == addr \div PAGE_SIZE

SeqRemove(s, i) == SubSeq(s, 1, i - 1) \o SubSeq(s, i + 1, Len(s))

\* The frames a context holds, kept in address order (duplicates are kept).
SortedInsert(s, x) ==
    LET k == Cardinality({i \in 1..Len(s) : s[i] <= x})
    IN  SubSeq(s, 1, k) \o <<x>> \o SubSeq(s, k + 1, Len(s))

(***************************************************************************)
(* Initial state: frames 0 and 1 back the two shared pages.                *)
(***************************************************************************)
InitMem ==
    /\ arch \in {"x86_64", "riscv"}
    /\ bitmap = {0, 1}
    /\ frame_lock = FALSE
    /\ table_lock = FALSE
    /\ pc = [c \in Ctx |-> "idle"]
    /\ interrupted = [c \in Ctx |-> "none"]
    /\ found = [c \in Ctx |-> None]
    /\ aret = [c \in Ctx |-> NoResult]
    /\ target = [c \in Ctx |-> None]
    /\ held = [c \in Ctx |-> <<>>]
    /\ rt = [c \in Ctx |-> None]
    /\ freed = None
    /\ faddr = [c \in Ctx |-> None]
    /\ fret = [c \in Ctx |-> None]
    /\ maps = [c \in Ctx |-> [p \in VPages |->
                 CASE p = 0 -> Entry(MEMORY_OFFSET, FALSE, CowCapable)
                   [] p = 1 -> Entry(MEMORY_OFFSET + PAGE_SIZE, FALSE, FALSE)
                   [] OTHER -> Unmapped]]
    /\ contents = [f \in PhysFrames |-> 0]
    /\ rc = [f \in PhysFrames |-> IF f = PFN(MEMORY_OFFSET) /\ CowCapable THEN 2 ELSE 0]
    /\ panicked = FALSE

(***************************************************************************)
(* File syscalls: the process, its memory and the file system              *)
(***************************************************************************)
\* Largest fd the model lets sys_open hand out.
MaxFd == 4

\* Most inodes the file system holds.
MaxInodes == 6

\* Most bytes a file holds.
MaxFileLen == 1

\* Longest buffer a syscall is given, in cells.
MaxLen == MaxFileLen

Ok(n) == <<"Ok", n>>
Err(e) == <<"Err", e>>

\* User memory, in cells: cell 0 is not mapped; a read-only area holds byte
\* cell 1; a read-write area holds the byte cells from 2; the Stat and the
\* DirEntry of the program have a read-write area each; a read-only area
\* holds the path strings of the program.
StatAddr == 2 + MaxLen
DentAddr == StatAddr + 1

\* The path strings of the program, each a sequence of '/'-separated names.
UserPaths ==
    <<  <<"a">>, <<"d">>, <<"d", "a">>, <<"x", "a">>, <<"stdin:">>, <<".">>  >>

StrBase == DentAddr + 3

Areas ==
    { [start |-> 1, end |-> 2, write |-> FALSE],
      [start |-> 2, end |-> 2 + MaxLen, write |-> TRUE],
      [start |-> StatAddr, end |-> StatAddr + 1, write |-> TRUE],
      [start |-> DentAddr, end |-> DentAddr + 1, write |-> TRUE],
      [start |-> StrBase, end |-> StrBase + Len(UserPaths), write |-> FALSE] }

ByteCells == 1..(1 + MaxLen)

\* MemorySet::check_array: the range lies in one area.
check_array(base, len) ==
    \E ar \in Areas : base >= ar.start /\ base + len <= ar.end

\* MemorySet::check_mut_array: the range lies in one writable area.
check_mut_array(base, len) ==
    \E ar \in Areas : ar.write /\ base >= ar.start /\ base + len <= ar.end

\* MemorySet::check_mut_ptr: one object at ptr, writable.
check_mut_ptr(ptr) == check_mut_array(ptr, 1)

\* MemorySet::check_and_clone_cstr: the string at a readable address, None
\* when the address is not the start of a mapped string.
check_and_clone_cstr(ptr) ==
    IF ptr \in StrBase..(StrBase + Len(UserPaths) - 1)
    THEN Some(UserPaths[ptr - StrBase + 1]) ELSE None

\* Inode numbers of the root directory and of the two devices.
ROOT_INODE == 0
STDIN == 1
STDOUT == 2

FileInode(data) == [type |-> "File", data |-> data, entries |-> <<>>]
DirInode(entries) == [type |-> "Dir", data |-> <<>>, entries |-> entries]
DevInode == [type |-> "CharDevice", data |-> <<>>, entries |-> <<>>]

\* INode::find in a directory: the inode of the entry called name.
Find(dir, name) ==
    IF inodes[dir].type # "Dir" THEN Err("NotDir")
    ELSE IF name = "." THEN Ok(dir)
    ELSE LET hits == {i \in 1..Len(inodes[dir].entries) :
                        inodes[dir].entries[i][1] = name}
         IN  IF hits = {} THEN Err("EntryNotFound")
             ELSE Ok(inodes[dir].entries[CHOOSE i \in hits : TRUE][2])

\* INode::lookup: walk the names of the path from a directory.
RECURSIVE Lookup(_, _)
Lookup(dir, path) ==
    IF path = <<>> THEN Ok(dir)
    ELSE LET r == Find(dir, Head(path))
         IN  IF r[1] = "Err" THEN r ELSE Lookup(r[2], Tail(path))

\* impl From<FsError> for SysError
SysErrorFrom(e) ==
    CASE e = "EntryNotFound" -> "NoEnt"
      [] e = "NotDir" -> "NotDir"
      [] e = "NotFile" -> "IsDir"
      [] e = "NoDeviceSpace" -> "NoSpc"
      [] OTHER -> "Inval"

\* INode::info: type, size (bytes of a file, entries of a directory), number.
Info(ino) ==
    [type |-> inodes[ino].type,
     size |-> IF inodes[ino].type = "Dir" THEN Len(inodes[ino].entries)
              ELSE Len(inodes[ino].data),
     inode |-> ino]

\* FileHandle::new
FileHandle(ino, opt) ==
    [inode |-> ino, offset |-> 0, read |-> opt.read, write |-> opt.write,
     append |-> opt.append]

NoStat == [ino |-> 0, mode |-> 0, size |-> 0]

\* No name returned yet; `valid` tells whether the offset started at 0.
NoneSeen(valid) == [valid |-> valid, dir |-> None, names |-> <<>>]

\* The last syscall: its name and whether the address-space check of its user
\* pointer passed.  For a sys_close, `fd` is the fd it was given and `closed`
\* the fds closed since the last syscall that was not a sys_close.
Call(name, ok) == [name |-> name, ok |-> ok, fd |-> None, closed |-> {}]

InitFs ==
    /\ files = [fd \in 0..2 |->
                  IF fd = 0
                  THEN FileHandle(STDIN, [read |-> TRUE, write |-> FALSE, append |-> FALSE])
                  ELSE FileHandle(STDOUT, [read |-> FALSE, write |-> TRUE, append |-> FALSE])]
    /\ inodes = [i \in 0..4 |->
                   CASE i = 0 -> DirInode(<< <<"a", 3>>, <<"d", 4>> >>)
                     [] i = 3 -> FileInode(<<1>>)
                     [] i = 4 -> DirInode(<<>>)
                     [] OTHER -> DevInode]
    /\ ubytes = [a \in ByteCells |-> 0]
    /\ ustat = NoStat
    /\ udentry = [offset |-> 0, name |-> ""]
    /\ call = Call("none", TRUE)
    /\ ret = Ok(0)
    /\ seen = NoneSeen(TRUE)

(***************************************************************************)
(* Kernel heap and alloc_stack                                             *)
(***************************************************************************)
\* Chunks the heap is made of.
HeapChunks == 6

\* Granularity of the heap in the model: half a stack.
CHUNK == 16384

STACK_SIZE == 32768

STACK_ALIGN == 32768

\* Where the kernel heap may start (KERNEL_HEAP_OFFSET).
HeapBases == {65536, 65536 + CHUNK}

ChunkAddrs ==
    IF heap_base = 0 THEN {}
    ELSE {heap_base + k * CHUNK : k \in 0..(HeapChunks - 1)}

\* The chunks a block of `size` bytes at address a covers.
Block(a, size) == {b \in ChunkAddrs : a <= b /\ b < a + size}

InitHeap ==
    /\ heap_base = 0
    /\ chunks = {}
    /\ others = {}
    /\ stacks = <<>>
    /\ heap_oom = FALSE

\* Threads of the process.
Thr == {1, 2}

NoArgs == [ptr |-> 0, bits |-> 0]

InitProc ==
    /\ proc_lock = FALSE
    /\ tpc = [t \in Thr |-> "idle"]
    /\ targs = [t \in Thr |-> NoArgs]
    /\ tinode = [t \in Thr |-> None]
    /\ tfd = [t \in Thr |-> None]
    /\ tres = [t \in Thr |-> NoResult]
    /\ handed = <<>>

Init == InitMem /\ InitFs /\ InitHeap /\ InitProc

(***************************************************************************)
(* alloc_frame                                                             *)
(***************************************************************************)
\* alloc_frame called by a thread: FRAME_ALLOCATOR.lock(), then the search
\* of .alloc().  A new allocator call ends every pending round trip.
AllocLock(c) ==
    /\ ~panicked
    /\ pc[c] = "idle"
    /\ FrameLockFree
    /\ frame_lock' = TRUE
    /\ found' = [found EXCEPT ![c] = BitAllocFind(bitmap)]
    /\ aret' = [aret EXCEPT ![c] = NoResult]
    /\ pc' = [pc EXCEPT ![c] = "af_mark"]
    /\ rt' = [d \in Ctx |-> None]
    /\ UNCHANGED nonmemvars
    /\ UNCHANGED <<freed, arch, bitmap, table_lock, interrupted, target, held, faddr,
                   fret, maps, contents, rc, panicked>>

AllocFrameResultOrZero(o) == IF o = None THEN Some(FrameAddr(0)) ELSE {FrameAddr(id) : id \in o}

\* .map(|id| id * PAGE_SIZE + MEMORY_OFFSET)
AllocFrameResult(o) == {FrameAddr(id) : id \in o}

\* .alloc(): mark; the guard is dropped and alloc_frame returns
AllocMark(c) ==
    /\ ~panicked
    /\ pc[c] = "af_mark"
    /\ bitmap' = BitAllocMark(bitmap, found[c])
    /\ frame_lock' = FALSE
    /\ found' = [found EXCEPT ![c] = None]
    /\ aret' = [aret EXCEPT ![c] = Returned(AllocFrameResult(found[c]))]
    /\ freed' = IF found[c] = None THEN freed ELSE None
    /\ IF InHandler(c)
       THEN /\ pc' = [pc EXCEPT ![c] = "pf_unwrap"]
            /\ UNCHANGED <<held, rt>>
       ELSE /\ pc' = [pc EXCEPT ![c] = "idle"]
            /\ held' = [held EXCEPT ![c] =
                          IF aret'[c][1] = None THEN @
                          ELSE SortedInsert(@, Unwrap(aret'[c][1]))]
            /\ rt' = [rt EXCEPT ![c] =
                          IF aret'[c][1] = None THEN None
                          ELSE Some([pre |-> bitmap, addr |-> Unwrap(aret'[c][1]),
                                     back |-> FALSE])]
    /\ UNCHANGED nonmemvars
    /\ UNCHANGED <<arch, table_lock, interrupted, target, faddr, fret, maps,
                   contents, rc, panicked>>

(***************************************************************************)
(* dealloc_frame                                                           *)
(***************************************************************************)
\* dealloc_frame(target) on a frame the context holds: FRAME_ALLOCATOR.lock()
DeallocLock(c, i) ==
    /\ ~panicked
    /\ pc[c] = "idle"
    /\ i \in 1..Len(held[c])
    /\ FrameLockFree
    /\ frame_lock' = TRUE
    /\ target' = [target EXCEPT ![c] = Some(held[c][i])]
    /\ held' = [held EXCEPT ![c] = SeqRemove(@, i)]
    /\ aret' = [aret EXCEPT ![c] = NoResult]
    /\ pc' = [pc EXCEPT ![c] = "df_dealloc"]
    /\ rt' = [d \in Ctx |->
                IF d = c /\ rt[c] # None /\ Unwrap(rt[c]).addr = held[c][i]
                THEN rt[c] ELSE None]
    /\ UNCHANGED nonmemvars
    /\ UNCHANGED <<freed, arch, bitmap, table_lock, interrupted, found, faddr, fret,
                   maps, contents, rc, panicked>>

\* .dealloc((target - MEMORY_OFFSET) / PAGE_SIZE); the guard is dropped
DeallocClear(c) ==
    /\ ~panicked
    /\ pc[c] = "df_dealloc"
    /\ bitmap' = BitAllocDealloc(bitmap, FrameId(Unwrap(target[c])))
    /\ frame_lock' = FALSE
    /\ target' = [target EXCEPT ![c] = None]
    /\ pc' = [pc EXCEPT ![c] = "idle"]
    /\ rt' = [rt EXCEPT ![c] = {[r EXCEPT !.back = TRUE] : r \in @}]
    /\ freed' = IF \E id \in IdsAt(Unwrap(target[c])) : \A j \in 0..(id - 1) : j \in bitmap
                THEN target[c] ELSE None
    /\ UNCHANGED nonmemvars
    /\ UNCHANGED <<arch, table_lock, interrupted, found, aret, held, faddr,
                   fret, maps, contents, rc, panicked>>

(***************************************************************************)
(* active_table                                                            *)
(***************************************************************************)
\* active_table(): ACTIVE_TABLE.lock() by a thread
ActiveTable(c) ==
    /\ ~panicked
    /\ pc[c] = "idle"
    /\ TableLockFree
    /\ table_lock' = TRUE
    /\ pc' = [pc EXCEPT ![c] = "table"]
    /\ UNCHANGED nonmemvars
    /\ UNCHANGED <<freed, arch, bitmap, frame_lock, interrupted, found, aret, target,
                   held, rt, faddr, fret, maps, contents, rc, panicked>>

\* The thread drops its MutexGuard: the lock bit is cleared.
DropTable(c) ==
    /\ ~panicked
    /\ pc[c] = "table"
    /\ table_lock' = FALSE
    /\ pc' = [pc EXCEPT ![c] = "idle"]
    /\ UNCHANGED nonmemvars
    /\ UNCHANGED <<freed, arch, bitmap, frame_lock, interrupted, found, aret, target,
                   held, rt, faddr, fret, maps, contents, rc, panicked>>

(***************************************************************************)
(* Memory writes of a context, and the write-protection fault              *)
(***************************************************************************)
\* A store to page p: it goes to the mapped frame when the page is writable.
Write(c, p) ==
    /\ ~panicked
    /\ pc[c] \in {"idle", "table"}
    /\ maps[c][p].present /\ maps[c][p].writable
    /\ contents' = [contents EXCEPT ![PFN(maps[c][p].target)] = c]
    /\ UNCHANGED nonmemvars
    /\ UNCHANGED <<freed, arch, bitmap, frame_lock, table_lock, pc, interrupted, found,
                   aret, target, held, rt, faddr, fret, maps, rc, panicked>>

\* A store to a page that is not writable traps into page_fault_handler(addr).
Fault(c, p) ==
    /\ ~panicked
    /\ pc[c] \in {"idle", "table"}
    /\ ~(maps[c][p].present /\ maps[c][p].writable)
    /\ interrupted' = [interrupted EXCEPT ![c] = pc[c]]
    /\ faddr' = [faddr EXCEPT ![c] = Some(VAddr(p))]
    /\ fret' = [fret EXCEPT ![c] = None]
    /\ aret' = [aret EXCEPT ![c] = NoResult]
    /\ pc' = [pc EXCEPT ![c] = "pf_entry"]
    /\ UNCHANGED nonmemvars
    /\ UNCHANGED <<freed, arch, bitmap, frame_lock, table_lock, found, target, held,
                   rt, maps, contents, rc, panicked>>

(***************************************************************************)
(* page_fault_handler                                                      *)
(***************************************************************************)
\* riscv: the handler is `false`.
PfRiscv(c) ==
    /\ ~panicked
    /\ ~CowCapable
    /\ pc[c] = "pf_entry"
    /\ fret' = [fret EXCEPT ![c] = Some(FALSE)]
    /\ pc' = [pc EXCEPT ![c] = "pf_ret"]
    /\ UNCHANGED nonmemvars
    /\ UNCHANGED <<freed, arch, bitmap, frame_lock, table_lock, interrupted, found,
                   aret, target, held, rt, faddr, maps, contents, rc, panicked>>

\* x86_64: unsafe { ACTIVE_TABLE.force_unlock(); }
PfForceUnlock(c) ==
    /\ ~panicked
    /\ CowCapable
    /\ pc[c] = "pf_entry"
    /\ table_lock' = FALSE
    /\ pc' = [pc EXCEPT ![c] = "pf_lock"]
    /\ UNCHANGED nonmemvars
    /\ UNCHANGED <<freed, arch, bitmap, frame_lock, interrupted, found, aret, target,
                   held, rt, faddr, fret, maps, contents, rc, panicked>>

\* active_table(): ACTIVE_TABLE.lock() by the handler
PfLock(c) ==
    /\ ~panicked
    /\ pc[c] = "pf_lock"
    /\ TableLockFree
    /\ table_lock' = TRUE
    /\ pc' = [pc EXCEPT ![c] = "pf_handle"]
    /\ UNCHANGED nonmemvars
    /\ UNCHANGED <<freed, arch, bitmap, frame_lock, interrupted, found, aret, target,
                   held, rt, faddr, fret, maps, contents, rc, panicked>>

\* CowExt: the fault is repaired only on a present entry marked COW.
CowEligible(e) == e.present /\ e.cow

ClosureInvokedAlways(e) == TRUE

\* The frame is taken by the closure || alloc_frame().unwrap(), which CowExt
\* invokes only when it needs a frame.
ClosureInvoked(e) == CowEligible(e)

FaultEntry(c) == maps[c][PageOf(Unwrap(faddr[c]))]

\* CowExt::page_fault_handler, steps 1 and 2: no mapping covers the address,
\* or the mapping is not COW.  The handler returns false; its guard is dropped.
PfUnhandled(c) ==
    /\ ~panicked
    /\ pc[c] = "pf_handle"
    /\ ~ClosureInvoked(FaultEntry(c))
    /\ fret' = [fret EXCEPT ![c] = Some(FALSE)]
    /\ table_lock' = FALSE
    /\ pc' = [pc EXCEPT ![c] = "pf_ret"]
    /\ UNCHANGED nonmemvars
    /\ UNCHANGED <<freed, arch, bitmap, frame_lock, interrupted, found, aret, target,
                   held, rt, faddr, maps, contents, rc, panicked>>

\* CowExt::page_fault_handler, step 3: a frame is needed.
PfNeedFrame(c) ==
    /\ ~panicked
    /\ pc[c] = "pf_handle"
    /\ ClosureInvoked(FaultEntry(c))
    /\ pc' = [pc EXCEPT ![c] = "pf_call_alloc"]
    /\ UNCHANGED nonmemvars
    /\ UNCHANGED <<freed, arch, bitmap, frame_lock, table_lock, interrupted, found,
                   aret, target, held, rt, faddr, fret, maps, contents, rc,
                   panicked>>

\* The closure calls alloc_frame: FRAME_ALLOCATOR.lock(), then the search.
PfCallAlloc(c) ==
    /\ ~panicked
    /\ pc[c] = "pf_call_alloc"
    /\ FrameLockFree
    /\ frame_lock' = TRUE
    /\ found' = [found EXCEPT ![c] = BitAllocFind(bitmap)]
    /\ pc' = [pc EXCEPT ![c] = "af_mark"]
    /\ rt' = [d \in Ctx |-> None]
    /\ UNCHANGED nonmemvars
    /\ UNCHANGED <<freed, arch, bitmap, table_lock, interrupted, aret, target, held,
                   faddr, fret, maps, contents, rc, panicked>>

\* alloc_frame().unwrap() on None: the kernel panics.
PfPanic(c) ==
    /\ ~panicked
    /\ pc[c] = "pf_unwrap"
    /\ aret[c] = Returned(None)
    /\ panicked' = TRUE
    /\ UNCHANGED nonmemvars
    /\ UNCHANGED <<freed, arch, bitmap, frame_lock, table_lock, pc, interrupted, found,
                   aret, target, held, rt, faddr, fret, maps, contents, rc>>

\* CowExt::page_fault_handler, step 3: copy the frame, remap the page to the
\* new frame with write permission, release one reference of the old frame.
\* The handler returns true; its guard is dropped.
PfRemap(c) ==
    /\ ~panicked
    /\ pc[c] = "pf_unwrap"
    /\ aret[c] # Returned(None)
    /\ LET p == PageOf(Unwrap(faddr[c]))
           e == maps[c][p]
           new == Unwrap(aret[c][1])
       IN  IF CowEligible(e)
           THEN /\ contents' = [f \in PhysFrames |->
                                 IF f = PFN(new) THEN contents[PFN(e.target)]
                                 ELSE contents[f]]
                /\ maps' = [maps EXCEPT ![c][p] = Entry(new, TRUE, FALSE)]
                /\ rc' = [rc EXCEPT ![PFN(e.target)] = @ - 1]
                /\ fret' = [fret EXCEPT ![c] = Some(TRUE)]
           ELSE /\ fret' = [fret EXCEPT ![c] = Some(FALSE)]
                /\ UNCHANGED <<contents, maps, rc>>
    /\ table_lock' = FALSE
    /\ pc' = [pc EXCEPT ![c] = "pf_ret"]
    /\ UNCHANGED nonmemvars
    /\ UNCHANGED <<freed, arch, bitmap, frame_lock, interrupted, found, aret, target,
                   held, rt, faddr, panicked>>

\* "Return true to continue, false to halt": the trap layer resumes the
\* interrupted context or terminates it.
PfReturn(c) ==
    /\ ~panicked
    /\ pc[c] = "pf_ret"
    /\ pc' = [pc EXCEPT ![c] = IF fret[c] = Some(TRUE) THEN interrupted[c] ELSE "dead"]
    /\ interrupted' = [interrupted EXCEPT ![c] = "none"]
    /\ faddr' = [faddr EXCEPT ![c] = None]
    /\ aret' = [aret EXCEPT ![c] = NoResult]
    /\ UNCHANGED nonmemvars
    /\ UNCHANGED <<freed, arch, bitmap, frame_lock, table_lock, found, target, held,
                   rt, fret, maps, contents, rc, panicked>>

(***************************************************************************)
(* Specification of the memory core                                        *)
(***************************************************************************)
Next ==
    \/ \E c \in Ctx : AllocLock(c)
    \/ \E c \in Ctx : AllocMark(c)
    \/ \E c \in Ctx : \E i \in 1..NFrames : DeallocLock(c, i)
    \/ \E c \in Ctx : DeallocClear(c)
    \/ \E c \in Ctx : ActiveTable(c)
    \/ \E c \in Ctx : DropTable(c)
    \/ \E c \in Ctx : \E p \in VPages : Write(c, p)
    \/ \E c \in Ctx : \E p \in VPages : Fault(c, p)
    \/ \E c \in Ctx : PfRiscv(c)
    \/ \E c \in Ctx : PfForceUnlock(c)
    \/ \E c \in Ctx : PfLock(c)
    \/ \E c \in Ctx : PfUnhandled(c)
    \/ \E c \in Ctx : PfNeedFrame(c)
    \/ \E c \in Ctx : PfCallAlloc(c)
    \/ \E c \in Ctx : PfPanic(c)
    \/ \E c \in Ctx : PfRemap(c)
    \/ \E c \in Ctx : PfReturn(c)

Spec == Init /\ [][Next]_vars

\* Scheduling: a context that can take a step of alloc_frame, dealloc_frame
\* or page_fault_handler, or drop a guard, is eventually run; a context
\* spinning in lock() gets the lock if it is free again and again.
Fairness ==
    \A c \in Ctx :
        /\ WF_vars(AllocMark(c))
        /\ WF_vars(DeallocClear(c))
        /\ WF_vars(DropTable(c))
        /\ WF_vars(PfForceUnlock(c))
        /\ SF_vars(PfLock(c))
        /\ WF_vars(PfUnhandled(c))
        /\ WF_vars(PfNeedFrame(c))
        /\ SF_vars(PfCallAlloc(c))
        /\ WF_vars(PfPanic(c))
        /\ WF_vars(PfRemap(c))

FairSpec == Init /\ [][Next]_vars /\ Fairness

(***************************************************************************)
(* alloc_stack                                                             *)
(***************************************************************************)
StackAlignedToChunk(a) == a % CHUNK = 0

\* #[repr(align(0x8000))] struct StackData
StackAligned(a) == a % STACK_ALIGN = 0

\* Where the heap can place a block of `size` bytes: inside the heap, on
\* free chunks.
Fits(a, size) ==
    /\ a \in ChunkAddrs
    /\ a + size <= heap_base + HeapChunks * CHUNK
    /\ Block(a, size) \cap chunks = {}

\* let top = bottom + STACK_SIZE
StackTop(bottom) == bottom + STACK_SIZE

\* alloc_stack: Box::new(StackData(..)), Box::into_raw, Stack { top, bottom }.
\* The box is leaked: nothing frees its chunks.  When the heap has no room the
\* allocation aborts the kernel.
AllocStack ==
    /\ ~heap_oom
    /\ Len(stacks) < HeapChunks
    /\ LET places == {a \in ChunkAddrs : StackAligned(a) /\ Fits(a, STACK_SIZE)}
       IN  IF places = {}
           THEN /\ heap_oom' = TRUE
                /\ UNCHANGED <<chunks, stacks>>
           ELSE \E bottom \in places :
                  /\ chunks' = chunks \cup Block(bottom, STACK_SIZE)
                  /\ stacks' = Append(stacks, [top |-> StackTop(bottom),
                                               bottom |-> bottom])
                  /\ UNCHANGED heap_oom
    /\ UNCHANGED <<heap_base, others>>
    /\ UNCHANGED nonheapvars

\* init_heap: HEAP_ALLOCATOR.lock().init(KERNEL_HEAP_OFFSET, KERNEL_HEAP_SIZE)
InitHeapAt(base) ==
    /\ ~heap_oom
    /\ heap_base = 0
    /\ heap_base' = base
    /\ UNCHANGED <<chunks, others, stacks, heap_oom>>
    /\ UNCHANGED nonheapvars

\* Another kernel object takes one chunk of the heap.
HeapAlloc(a) ==
    /\ ~heap_oom
    /\ Fits(a, CHUNK)
    /\ chunks' = chunks \cup {a}
    /\ others' = others \cup {a}
    /\ UNCHANGED <<heap_base, stacks, heap_oom>>
    /\ UNCHANGED nonheapvars

\* A kernel object is dropped: its chunk goes back to the heap.
HeapFree(a) ==
    /\ ~heap_oom
    /\ a \in others
    /\ chunks' = chunks \ {a}
    /\ others' = others \ {a}
    /\ UNCHANGED <<heap_base, stacks, heap_oom>>
    /\ UNCHANGED nonheapvars

NextStack ==
    \/ \E base \in HeapBases : InitHeapAt(base)
    \/ AllocStack
    \/ \E a \in ChunkAddrs : HeapAlloc(a)
    \/ \E a \in ChunkAddrs : HeapFree(a)

SpecStack == Init /\ [][NextStack]_vars

(***************************************************************************)
(* OpenFlags                                                               *)
(***************************************************************************)
RDONLY == 0
WRONLY == 1
RDWR == 2
CREATE == 64
EXCLUSIVE == 128
TRUNCATE == 512
APPEND == 1024

\* bits & flag, for a flag of one bit
BitAnd(bits, flag) == ((bits \div flag) % 2) * flag

FromBitsNoExclusive(bits) ==
    BitAnd(bits, WRONLY) + BitAnd(bits, RDWR) + BitAnd(bits, CREATE)
        + BitAnd(bits, TRUNCATE) + BitAnd(bits, APPEND)

\* OpenFlags::from_bits_truncate: the bits of no flag are dropped.
from_bits_truncate(bits) ==
    BitAnd(bits, WRONLY) + BitAnd(bits, RDWR) + BitAnd(bits, CREATE)
        + BitAnd(bits, EXCLUSIVE) + BitAnd(bits, TRUNCATE) + BitAnd(bits, APPEND)

\* OpenFlags::contains
contains(flags, flag) == BitAnd(flags, flag) = flag

\* OpenFlags::readable
readable(flags) ==
    LET b == flags % 4 IN b = RDONLY \/ b = RDWR

\* OpenFlags::writable
writable(flags) ==
    LET b == flags % 4 IN b = WRONLY \/ b = RDWR

\* OpenFlags::to_options
to_options(flags) ==
    [read |-> readable(flags), write |-> writable(flags),
     append |-> contains(flags, APPEND)]

(***************************************************************************)
(* FileHandle                                                              *)
(***************************************************************************)
MinOf(a, b) == IF a <= b THEN a ELSE b

\* FileHandle::read: the bytes from the offset on, at most len of them.
HandleRead(h, len) ==
    IF ~h.read THEN Err("InvalidParam")
    ELSE IF inodes[h.inode].type = "Dir" THEN Err("NotFile")
    ELSE LET data == inodes[h.inode].data
             n == IF h.offset >= Len(data) THEN 0
                  ELSE MinOf(len, Len(data) - h.offset)
         IN  Ok(SubSeq(data, h.offset + 1, h.offset + n))

\* FileHandle::write: where the bytes go and the data of the file after it.
HandleWrite(h, bytes) ==
    IF ~h.write THEN Err("InvalidParam")
    ELSE IF inodes[h.inode].type = "Dir" THEN Err("NotFile")
    ELSE IF inodes[h.inode].type = "CharDevice"
         THEN Ok([offset |-> h.offset, data |-> <<>>])
    ELSE LET data == inodes[h.inode].data
             off == IF h.append THEN Len(data) ELSE h.offset
             end == off + Len(bytes)
         IN  IF end > MaxFileLen THEN Err("NoDeviceSpace")
             ELSE Ok([offset |-> end,
                      data |-> SubSeq(data, 1, off) \o bytes
                                 \o SubSeq(data, end + 1, Len(data))])

(***************************************************************************)
(* The syscalls; each runs under the process lock from entry to return.    *)
(***************************************************************************)
\* get_file
get_file(fd) == IF fd \in DOMAIN files THEN Ok(fd) ELSE Err("Inval")

Insert(tbl, fd, h) == [f \in DOMAIN tbl \cup {fd} |-> IF f = fd THEN h ELSE tbl[f]]

RemoveNothing(tbl, fd) == tbl

\* process().files.remove(&fd)
Remove(tbl, fd) == [f \in DOMAIN tbl \ {fd} |-> tbl[f]]

SysReadCheckReadOnly(base, len) == check_array(base, len)

\* sys_read: proc.memory_set.check_mut_array(base, len)
SysReadCheck(base, len) == check_mut_array(base, len)

\* sys_read
SysRead(fd, base, len) ==
    /\ call' = Call("read", check_mut_array(base, len))
    /\ IF ~SysReadCheck(base, len)
       THEN /\ ret' = Err("Inval")
            /\ UNCHANGED <<files, ubytes>>
       ELSE IF get_file(fd)[1] = "Err"
       THEN /\ ret' = Err("Inval")
            /\ UNCHANGED <<files, ubytes>>
       ELSE LET r == HandleRead(files[fd], len)
            IN  IF r[1] = "Err"
                THEN /\ ret' = Err(SysErrorFrom(r[2]))
                     /\ UNCHANGED <<files, ubytes>>
                ELSE /\ ubytes' = [a \in DOMAIN ubytes |->
                                     IF a \in base..(base + Len(r[2]) - 1)
                                     THEN r[2][a - base + 1] ELSE ubytes[a]]
                     /\ files' = [files EXCEPT ![fd].offset = @ + Len(r[2])]
                     /\ ret' = Ok(Len(r[2]))
    /\ UNCHANGED <<inodes, ustat, udentry>>
    /\ UNCHANGED <<nonfsvars, seen>>

\* sys_write
SysWrite(fd, base, len) ==
    /\ call' = Call("write", check_array(base, len))
    /\ IF ~check_array(base, len)
       THEN /\ ret' = Err("Inval")
            /\ UNCHANGED <<files, inodes>>
       ELSE IF get_file(fd)[1] = "Err"
       THEN /\ ret' = Err("Inval")
            /\ UNCHANGED <<files, inodes>>
       ELSE LET r == HandleWrite(files[fd], [i \in 1..len |-> ubytes[base + i - 1]])
            IN  IF r[1] = "Err"
                THEN /\ ret' = Err(SysErrorFrom(r[2]))
                     /\ UNCHANGED <<files, inodes>>
                ELSE /\ inodes' = [inodes EXCEPT ![files[fd].inode].data = r[2].data]
                     /\ files' = [files EXCEPT ![fd].offset = r[2].offset]
                     /\ ret' = Ok(len)
    /\ UNCHANGED <<ubytes, ustat, udentry>>
    /\ UNCHANGED <<nonfsvars, seen>>

\* sys_open, the CREATE branch: the inode to open, or the error; `made` tells
\* whether dir_inode.create made it.
OpenCreate(path, flags) ==
    LET file_name == path[Len(path)]
        dir_path == IF Len(path) = 1 THEN <<".">> ELSE SubSeq(path, 1, Len(path) - 1)
        dir == Lookup(ROOT_INODE, dir_path)
    IN  IF dir[1] = "Err" THEN [res |-> Err(SysErrorFrom(dir[2])), made |-> FALSE]
        ELSE LET f == Find(dir[2], file_name)
             IN  IF f[1] = "Ok"
                 THEN IF contains(flags, EXCLUSIVE)
                      THEN [res |-> Err("Exists"), made |-> FALSE]
                      ELSE [res |-> f, made |-> FALSE]
                 ELSE IF f[2] = "EntryNotFound"
                 THEN IF Cardinality(DOMAIN inodes) >= MaxInodes
                      THEN [res |-> Err(SysErrorFrom("NoDeviceSpace")), made |-> FALSE]
                      ELSE [res |-> Ok(Cardinality(DOMAIN inodes)), made |-> TRUE,
                            dir |-> dir[2], name |-> file_name]
                 ELSE [res |-> Err(SysErrorFrom(f[2])), made |-> FALSE]

\* sys_open, the branch without CREATE
OpenExisting(path) ==
    IF path = <<"stdin:">> THEN Ok(STDIN)
    ELSE IF path = <<"stdout:">> THEN Ok(STDOUT)
    ELSE LET r == Lookup(ROOT_INODE, path)
         IN  IF r[1] = "Err" THEN Err(SysErrorFrom(r[2])) ELSE r

FreeFdFromZero(tbl) == Min({i \in 0..(3 + Cardinality(DOMAIN tbl)) : i \notin DOMAIN tbl})

\* (3..).find(|i| !proc.files.contains_key(i))
FreeFd(tbl) == Min({i \in 3..(3 + Cardinality(DOMAIN tbl)) : i \notin DOMAIN tbl})

\* sys_open (the mode only sets the permission bits of a created file)
SysOpen(ptr, bits) ==
    /\ call' = Call("open", check_and_clone_cstr(ptr) # None)
    /\ LET path == check_and_clone_cstr(ptr)
           flags == from_bits_truncate(bits)
       IN  IF path = None
           THEN /\ ret' = Err("Inval")
                /\ UNCHANGED <<files, inodes>>
           ELSE LET o == IF contains(flags, CREATE)
                         THEN OpenCreate(Unwrap(path), flags)
                         ELSE [res |-> OpenExisting(Unwrap(path)), made |-> FALSE]
                IN  IF o.res[1] = "Err"
                    THEN /\ ret' = o.res
                         /\ UNCHANGED <<files, inodes>>
                    ELSE /\ FreeFd(files) <= MaxFd
                         /\ inodes' =
                              IF o.made
                              THEN [i \in DOMAIN inodes \cup {o.res[2]} |->
                                      IF i = o.res[2] THEN FileInode(<<>>)
                                      ELSE IF i = o.dir
                                      THEN [inodes[i] EXCEPT !.entries =
                                              Append(@, <<o.name, o.res[2]>>)]
                                      ELSE inodes[i]]
                              ELSE inodes
                         /\ files' = Insert(files, FreeFd(files),
                                            FileHandle(o.res[2], to_options(flags)))
                         /\ ret' = Ok(FreeFd(files))
    /\ UNCHANGED <<ubytes, ustat, udentry>>
    /\ UNCHANGED <<nonfsvars, seen>>

\* sys_close
SysClose(fd) ==
    /\ call' = [Call("close", TRUE) EXCEPT
                   !.fd = Some(fd),
                   !.closed = IF fd \in DOMAIN files THEN call.closed \cup {fd}
                              ELSE call.closed]
    /\ IF fd \in DOMAIN files
       THEN files' = Remove(files, fd) /\ ret' = Ok(0)
       ELSE files' = files /\ ret' = Err("Inval")
    /\ UNCHANGED <<inodes, ubytes, ustat, udentry>>
    /\ UNCHANGED <<nonfsvars, seen>>

\* StatMode::from_type_mode: the type bits
StatModeOf(type) ==
    CASE type = "File" -> 32768
      [] type = "Dir" -> 16384
      [] type = "CharDevice" -> 8192
      [] OTHER -> 0

\* impl From<Metadata> for Stat
StatFrom(info) == [ino |-> info.inode, mode |-> StatModeOf(info.type), size |-> info.size]

\* sys_fstat
SysFstat(fd, ptr) ==
    /\ call' = Call("fstat", check_mut_ptr(ptr))
    /\ IF ~check_mut_ptr(ptr)
       THEN ret' = Err("Inval") /\ ustat' = ustat
       ELSE IF get_file(fd)[1] = "Err"
       THEN ret' = Err("Inval") /\ ustat' = ustat
       ELSE /\ ustat' = StatFrom(Info(files[fd].inode))
            /\ ret' = Ok(0)
    /\ UNCHANGED <<files, inodes, ubytes, udentry>>
    /\ UNCHANGED <<nonfsvars, seen>>

\* DirEntry::check
check(dentry) == dentry.offset % 256 = 0

\* DirEntry::entry_id
entry_id(dentry) == dentry.offset \div 256

SetNameKeepOffset(dentry, name) == [offset |-> dentry.offset, name |-> name]

\* DirEntry::set_name
set_name(dentry, name) == [offset |-> dentry.offset + 256, name |-> name]

\* sys_getdirentry
SysGetdirentry(fd, ptr) ==
    /\ call' = Call("getdirentry", check_mut_ptr(ptr))
    /\ IF ~check_mut_ptr(ptr)
       THEN ret' = Err("Inval") /\ udentry' = udentry
       ELSE IF get_file(fd)[1] = "Err"
       THEN ret' = Err("Inval") /\ udentry' = udentry
       ELSE IF ~check(udentry)
       THEN ret' = Err("Inval") /\ udentry' = udentry
       ELSE LET info == Info(files[fd].inode)
            IN  IF info.type # "Dir" \/ info.size <= entry_id(udentry)
                THEN ret' = Err("Inval") /\ udentry' = udentry
                ELSE /\ udentry' = set_name(udentry,
                            inodes[files[fd].inode].entries[entry_id(udentry) + 1][1])
                     /\ ret' = Ok(0)
    /\ seen' = IF ret'[1] = "Err" THEN seen
               ELSE IF seen.valid /\ seen.dir \in {None, Some(files[fd].inode)}
               THEN [valid |-> TRUE, dir |-> Some(files[fd].inode),
                     names |-> Append(seen.names, udentry'.name)]
               ELSE NoneSeen(FALSE)
    /\ UNCHANGED <<files, inodes, ubytes, ustat>>
    /\ UNCHANGED nonfsvars

Dup2NeverRefuses(fd2) == FALSE

\* sys_dup2: proc.files.contains_key(&fd2)
Dup2Refuses(fd2) == fd2 \in DOMAIN files

\* sys_dup2
SysDup2(fd1, fd2) ==
    /\ call' = Call("dup2", TRUE)
    /\ IF Dup2Refuses(fd2)
       THEN files' = files /\ ret' = Err("Inval")
       ELSE IF get_file(fd1)[1] = "Err"
       THEN files' = files /\ ret' = Err("Inval")
       ELSE files' = Insert(files, fd2, files[fd1]) /\ ret' = Ok(0)
    /\ UNCHANGED <<inodes, ubytes, ustat, udentry>>
    /\ UNCHANGED <<nonfsvars, seen>>

\* The program stores a byte into one of its writable cells.
UserStore(a, v) ==
    /\ check_mut_array(a, 1)
    /\ ubytes' = [ubytes EXCEPT ![a] = v]
    /\ call' = Call("user", TRUE)
    /\ ret' = Ok(0)
    /\ UNCHANGED <<files, inodes, ustat, udentry>>
    /\ UNCHANGED <<nonfsvars, seen>>

\* The program sets the offset of its DirEntry.
UserSetOffset(off) ==
    /\ udentry' = [udentry EXCEPT !.offset = off]
    /\ seen' = NoneSeen(off = 0)
    /\ call' = Call("user", TRUE)
    /\ ret' = Ok(0)
    /\ UNCHANGED <<files, inodes, ubytes, ustat>>
    /\ UNCHANGED nonfsvars

\* The arguments the program passes.
FdInputs == 3..MaxFd
BufPtrs == 0..(1 + MaxLen)
BufLens == 0..MaxLen
PathPtrs == {0, StrBase, StrBase + 1, StrBase + 2}
FlagInputs == {RDWR, CREATE + RDWR}
StatPtrs == {0, 1, StatAddr}
DentPtrs == {0, 1, DentAddr}
DentOffsets == {0, 1}

NextFs ==
    \/ \E fd \in FdInputs, base \in BufPtrs, len \in BufLens : SysRead(fd, base, len)
    \/ \E fd \in FdInputs, base \in BufPtrs, len \in BufLens : SysWrite(fd, base, len)
    \/ \E ptr \in PathPtrs, bits \in FlagInputs :
          FreeFd(files) < MaxFd /\ SysOpen(ptr, bits)
    \/ \E fd \in FdInputs, ptr \in StatPtrs : SysFstat(fd, ptr)
    \/ \E fd \in FdInputs, ptr \in DentPtrs : SysGetdirentry(fd, ptr)
    \/ \E off \in DentOffsets : UserSetOffset(off)

InitOnX86 == Init /\ arch = "x86_64"

\* Arguments of the fd-table syscalls.
TableFds == {0} \cup (3..(MaxFd + 1))
TablePaths == {0, StrBase, StrBase + 2, StrBase + 3}
TableFlags == {RDONLY, CREATE + RDWR, CREATE + EXCLUSIVE + RDWR}

SpecFs == InitOnX86 /\ [][NextFs]_vars

(***************************************************************************)
(* sys_open step by step, called by the threads of one process             *)
(***************************************************************************)
ProcLockIgnored == TRUE

\* process() returns the MutexGuard once the lock bit is clear.
ProcLockFree == ~proc_lock

\* The file system after sys_open resolved its inode (dir_inode.create adds
\* the new file to its directory).
InodesAfter(o) ==
    IF o.made
    THEN [i \in DOMAIN inodes \cup {o.res[2]} |->
            IF i = o.res[2] THEN FileInode(<<>>)
            ELSE IF i = o.dir
            THEN [inodes[i] EXCEPT !.entries = Append(@, <<o.name, o.res[2]>>)]
            ELSE inodes[i]]
    ELSE inodes

\* A thread calls sys_open(path, flags, mode) and spins in process().
OpenCall(t, ptr, bits) ==
    /\ tpc[t] = "idle"
    /\ Len(handed) + Cardinality({u \in Thr : tpc[u] # "idle"}) < MaxFd - 1
    /\ tpc' = [tpc EXCEPT ![t] = "lock"]
    /\ targs' = [targs EXCEPT ![t] = [ptr |-> ptr, bits |-> bits]]
    /\ tres' = [tres EXCEPT ![t] = NoResult]
    /\ UNCHANGED <<proc_lock, tinode, tfd, handed>>
    /\ UNCHANGED <<fsvars, memvars, heapvars>>

\* let mut proc = process();
OpenLock(t) ==
    /\ tpc[t] = "lock"
    /\ ProcLockFree
    /\ proc_lock' = TRUE
    /\ tpc' = [tpc EXCEPT ![t] = "resolve"]
    /\ UNCHANGED <<targs, tinode, tfd, tres, handed>>
    /\ UNCHANGED <<fsvars, memvars, heapvars>>

\* check_and_clone_cstr, from_bits_truncate and the inode: an error returns
\* and drops the guard.
OpenResolve(t) ==
    /\ tpc[t] = "resolve"
    /\ LET path == check_and_clone_cstr(targs[t].ptr)
           flags == from_bits_truncate(targs[t].bits)
           o == IF path = None THEN [res |-> Err("Inval"), made |-> FALSE]
                ELSE IF contains(flags, CREATE)
                THEN OpenCreate(Unwrap(path), flags)
                ELSE [res |-> OpenExisting(Unwrap(path)), made |-> FALSE]
       IN  IF o.res[1] = "Err"
           THEN /\ tres' = [tres EXCEPT ![t] = Returned(o.res)]
                /\ proc_lock' = FALSE
                /\ tpc' = [tpc EXCEPT ![t] = "idle"]
                /\ targs' = [targs EXCEPT ![t] = NoArgs]
                /\ UNCHANGED <<inodes, tinode>>
           ELSE /\ inodes' = InodesAfter(o)
                /\ tinode' = [tinode EXCEPT ![t] = Some(o.res[2])]
                /\ tpc' = [tpc EXCEPT ![t] = "find"]
                /\ UNCHANGED <<tres, proc_lock, targs>>
    /\ UNCHANGED <<tfd, handed>>
    /\ UNCHANGED <<files, ubytes, ustat, udentry, call, ret, seen>>
    /\ UNCHANGED <<memvars, heapvars>>

\* let fd = (3..).find(|i| !proc.files.contains_key(i)).unwrap();
OpenFind(t) ==
    /\ tpc[t] = "find"
    /\ tfd' = [tfd EXCEPT ![t] = Some(FreeFd(files))]
    /\ tpc' = [tpc EXCEPT ![t] = "insert"]
    /\ UNCHANGED <<proc_lock, targs, tinode, tres, handed>>
    /\ UNCHANGED <<fsvars, memvars, heapvars>>

\* proc.files.insert(fd, file); Ok(fd); the guard is dropped
OpenInsert(t) ==
    /\ tpc[t] = "insert"
    /\ files' = Insert(files, Unwrap(tfd[t]),
                       FileHandle(Unwrap(tinode[t]),
                                  to_options(from_bits_truncate(targs[t].bits))))
    /\ tres' = [tres EXCEPT ![t] = Returned(Ok(Unwrap(tfd[t])))]
    /\ handed' = Append(handed, Unwrap(tfd[t]))
    /\ proc_lock' = FALSE
    /\ tpc' = [tpc EXCEPT ![t] = "idle"]
    /\ targs' = [targs EXCEPT ![t] = NoArgs]
    /\ tinode' = [tinode EXCEPT ![t] = None]
    /\ tfd' = [tfd EXCEPT ![t] = None]
    /\ UNCHANGED <<inodes, ubytes, ustat, udentry, call, ret, seen>>
    /\ UNCHANGED <<memvars, heapvars>>

NextOpen ==
    \/ \E t \in Thr, ptr \in TablePaths, bits \in TableFlags : OpenCall(t, ptr, bits)
    \/ \E t \in Thr : OpenLock(t)
    \/ \E t \in Thr : OpenResolve(t)
    \/ \E t \in Thr : OpenFind(t)
    \/ \E t \in Thr : OpenInsert(t)

SpecOpen == InitOnX86 /\ [][NextOpen]_vars

(***************************************************************************)
(* Specification of directory reading: open, getdirentry                   *)
(***************************************************************************)
DirPaths == {StrBase, StrBase + 1, StrBase + 2, StrBase + 5}
DirFlags == {RDONLY, CREATE + RDWR}

NextDir ==
    \/ \E ptr \in DirPaths, bits \in DirFlags :
          FreeFd(files) < MaxFd /\ SysOpen(ptr, bits)
    \/ \E fd \in FdInputs : SysClose(fd)
    \/ \E fd \in FdInputs, ptr \in DentPtrs : SysGetdirentry(fd, ptr)
    \/ \E off \in DentOffsets : UserSetOffset(off)

SpecDir == InitOnX86 /\ [][NextDir]_vars

(***************************************************************************)
(* Specifications of the fd table: open and close; dup2 among them         *)
(***************************************************************************)
NextFd ==
    \/ \E ptr \in TablePaths, bits \in TableFlags : SysOpen(ptr, bits)
    \/ \E fd \in TableFds : SysClose(fd)

SpecFd == InitOnX86 /\ [][NextFd]_vars

NextDup ==
    \/ SysOpen(StrBase, RDONLY)
    \/ \E fd \in TableFds : SysClose(fd)
    \/ \E fd1 \in TableFds, fd2 \in TableFds : SysDup2(fd1, fd2)

SpecDup == InitOnX86 /\ [][NextDup]_vars

(***************************************************************************)
(* Properties of the memory core                                           *)
(***************************************************************************)
\* Every frame address that is handed out and not yet given back: the frames
\* the contexts hold, the frame a handler has just taken, and the private
\* frames the handlers mapped.
HeldHandouts ==
    UNION {{<<"held", c, i, held[c][i]>> : i \in 1..Len(held[c])} : c \in Ctx}

PendingHandouts ==
    {<<"pending", c, 0, Unwrap(aret[c][1])>> :
        c \in {d \in Ctx : pc[d] = "pf_unwrap" /\ aret[d] # Returned(None)}}

MappedHandouts ==
    UNION {{<<"mapped", c, p, maps[c][p].target>> :
               p \in {q \in VPages : maps[c][q].present /\ maps[c][q].writable}} :
           c \in Ctx}

Outstanding == HeldHandouts \cup PendingHandouts \cup MappedHandouts

\* The frames that back the shared read-only pages.
SharedFrames ==
    UNION {{PFN(maps[c][p].target) :
               p \in {q \in VPages : maps[c][q].present /\ ~maps[c][q].writable}} :
           c \in Ctx}

\* C1: whatever the interleaving of alloc_frame and dealloc_frame calls, the
\* frames handed out and not yet deallocated never contain a duplicate, and
\* none of them is a frame that backs a shared page.
C1_NoDuplicateFrame ==
    /\ \A x, y \in Outstanding : x # y => x[4] # y[4]
    /\ \A x \in Outstanding : PFN(x[4]) \notin SharedFrames

\* Both contexts hold a frame that alloc_frame has just returned to them.
C1_Witness ==
    \A c \in Ctx : /\ Len(held[c]) = 1
                   /\ aret[c] = Returned(Some(held[c][1]))

\* C2: at most one execution context holds the guard of active_table().
C2_ExclusiveGuard == Cardinality(Guards) <= 1

\* C3: a handler whose alloc_frame found no free frame returns false, without
\* a kernel panic and with the page tables unchanged.
C3_ExhaustionReturnsFalse ==
    [][\A c \in Ctx :
         (pc[c] = "pf_unwrap" /\ aret[c] = Returned(None))
            => /\ ~panicked'
               /\ maps'[c] = maps[c]
               /\ pc'[c] # pc[c] => (pc'[c] = "pf_ret" /\ fret'[c] = Some(FALSE))]_vars

\* The contents a space sees through its mapped pages.
View(c) ==
    [p \in {q \in VPages : maps[c][q].present} |-> contents[PFN(maps[c][p].target)]]

\* No frame mapped writable in one space is mapped in the other.
NoWritableAlias ==
    \A c, d \in Ctx : \A p, q \in VPages :
        (c # d /\ maps[c][p].present /\ maps[c][p].writable /\ maps[d][q].present)
            => PFN(maps[c][p].target) # PFN(maps[d][q].target)

\* Every allocated frame is accounted for: the two shared frames, the frames
\* the contexts hold or are giving back, and one frame per repaired COW page.
FrameAccounting ==
    Cardinality(bitmap) =
        2 + Cardinality(Outstanding)
          + Cardinality({c \in Ctx : pc[c] = "df_dealloc"})

\* A handler step that repairs a COW fault of context c.
CowRepair(c) == pc[c] = "pf_unwrap" /\ pc'[c] = "pf_ret" /\ fret'[c] = Some(TRUE)

CowRepairStep ==
    \A c \in Ctx : CowRepair(c) =>
        LET p == PageOf(Unwrap(faddr[c]))
            old == maps[c][p]
        IN  /\ \A d \in Ctx \ {c} : maps'[d] = maps[d] /\ View(d)' = View(d)
            /\ \A q \in VPages \ {p} : maps'[c][q] = maps[c][q]
            /\ maps'[c][p] = Entry(Unwrap(aret[c][1]), TRUE, FALSE)
            /\ PFN(maps'[c][p].target) # PFN(old.target)
            /\ contents'[PFN(old.target)] = contents[PFN(old.target)]
            /\ contents'[PFN(maps'[c][p].target)] = contents[PFN(old.target)]
            /\ bitmap' = bitmap

\* A store changes the view of at most one space.
WriteStep ==
    (maps' = maps /\ contents' # contents) =>
        \E c \in Ctx : \A d \in Ctx \ {c} : View(d)' = View(d)

\* C4: a COW write fault by one of two spaces sharing a frame takes exactly one
\* new frame, remaps only the faulting page of the faulting space to it with
\* write permission and the old contents, and leaves the other space's
\* mapping and the shared frame's contents unchanged; later writes by either
\* space are not visible to the other.
C4_CowDiverges ==
    /\ [](NoWritableAlias /\ FrameAccounting)
    /\ [][CowRepairStep /\ WriteStep]_vars

\* Space 1 has repaired its COW page and written to it; space 2 still maps
\* the shared frame, whose contents are the original ones.
C4_Witness ==
    /\ maps[1][0].writable /\ ~maps[2][0].writable /\ maps[2][0].cow
    /\ contents[PFN(maps[1][0].target)] = 1
    /\ contents[PFN(maps[2][0].target)] = 0

\* C5: page_fault_handler on an address with no mapping, or with a mapping
\* that is not COW, returns false and takes no frame: no step of the handler
\* touches the frame allocator.
C5_UnhandledTakesNoFrame ==
    [][\A c \in Ctx :
         (InHandler(c) /\ ~CowEligible(FaultEntry(c)) /\ pc'[c] # pc[c])
            => /\ bitmap' = bitmap
               /\ frame_lock' = frame_lock
               /\ pc'[c] = "pf_ret" => fret'[c] = Some(FALSE)]_vars

\* On the COW-capable build one handler has returned false for an unmapped
\* address and another for a mapping that is not COW.
C5_Witness ==
    /\ CowCapable
    /\ \A c \in Ctx : pc[c] = "pf_ret" /\ fret[c] = Some(FALSE)
    /\ ~FaultEntry(1).present
    /\ FaultEntry(2).present /\ ~FaultEntry(2).cow

\* C6: with every frame of the capacity allocated, alloc_frame returns None
\* and leaves the bitmap unchanged.
C6_ExhaustedReturnsNone ==
    [][\A c \in Ctx :
         (pc[c] = "af_mark" /\ pc'[c] # "af_mark" /\ bitmap = FrameIds)
            => aret'[c] = Returned(None) /\ bitmap' = bitmap]_vars

\* A thread's alloc_frame has returned None on a full bitmap.
C6_Witness ==
    \E c \in Ctx : /\ pc[c] = "idle"
                   /\ aret[c] = Returned(None)
                   /\ bitmap = FrameIds

\* C7: alloc_frame returns the address of the lowest-numbered free frame, so
\* after dealloc_frame of a frame below which every frame is allocated, the
\* next alloc_frame returns that frame.
C7_LowestFreeFirst ==
    [][\A c \in Ctx :
         (pc[c] = "af_mark" /\ pc'[c] # "af_mark")
            => /\ \A a \in aret'[c][1] :
                    /\ FrameIds \ bitmap # {}
                    /\ a = Min(FrameIds \ bitmap) * PAGE_SIZE + MEMORY_OFFSET
               /\ FrameIds \ bitmap # {} => aret'[c][1] # None
               /\ freed # None => aret'[c] = Returned(freed)]_vars

\* A context holds two frames and its last alloc_frame returned the lower
\* one: that frame was given back after the higher one was allocated, and the
\* next alloc_frame returned it again.
C7_Witness ==
    \E c \in Ctx : /\ pc[c] = "idle"
                   /\ Len(held[c]) = 2
                   /\ held[c][1] < held[c][2]
                   /\ aret[c] = Returned(Some(held[c][1]))

\* C8: dealloc_frame of the address alloc_frame has just returned, with no
\* other allocator call in between, restores the bitmap of before the
\* alloc_frame.
C8_RoundTrip ==
    \A c \in Ctx : \A r \in rt[c] :
        /\ r.back => bitmap = r.pre
        /\ r.addr = Min(FrameIds \ r.pre) * PAGE_SIZE + MEMORY_OFFSET

\* A context has given back the frame it had just allocated, on a bitmap
\* that had a frame in use besides the two shared ones.
C8_Witness ==
    \E c \in Ctx : \E r \in rt[c] : r.back /\ Cardinality(r.pre) > 2

\* C10: without the COW extension, page_fault_handler returns false for every
\* address; no step of it takes the active-table lock, allocates a frame or
\* changes a mapping.
C10_NoCowUnhandled ==
    [][\A c \in Ctx :
         (arch = "riscv" /\ InHandler(c) /\ pc'[c] # pc[c])
            => /\ UNCHANGED <<table_lock, frame_lock, bitmap, maps, contents, rc>>
               /\ pc'[c] = "pf_ret" => fret'[c] = Some(FALSE)
               /\ pc[c] = "pf_ret" => pc'[c] = "dead"]_vars

\* On riscv a handler has returned false while the other context holds the
\* guard of active_table().
C10_Witness ==
    /\ arch = "riscv"
    /\ \E c \in Ctx : /\ pc[c] = "pf_ret" /\ fret[c] = Some(FALSE)
                      /\ pc[3 - c] = "table" /\ table_lock

(***************************************************************************)
(* Properties of the file syscalls.                                        *)
(***************************************************************************)
PointerSyscalls == {"read", "write", "open", "fstat", "getdirentry"}

\* C9: when the address-space check of its pointer or range fails, each of
\* sys_read, sys_write, sys_open, sys_fstat and sys_getdirentry returns Inval
\* and leaves the fd table, the files and the user memory as they were.
C9_BadPointerIsInval ==
    [][(call'.name \in PointerSyscalls /\ ~call'.ok)
          => /\ ret' = Err("Inval")
             /\ UNCHANGED <<files, inodes, ubytes, ustat, udentry>>]_vars

\* sys_read has refused a bad buffer while fd 3 was a readable file with
\* bytes left to read.
C9_Witness ==
    /\ call = Call("read", FALSE)
    /\ ret = Err("Inval")
    /\ 3 \in DOMAIN files
    /\ files[3].read
    /\ inodes[files[3].inode].type = "File"
    /\ files[3].offset < Len(inodes[files[3].inode].data)

(***************************************************************************)
(* Progress of the page-fault handler.                                     *)
(***************************************************************************)
\* C11: on x86_64 every call of page_fault_handler gets the active-table
\* lock and returns, whoever held the guard when the fault happened.
C11_HandlerReturns ==
    \A c \in Ctx :
        (CowCapable /\ pc[c] = "pf_entry") ~> (pc[c] = "pf_ret")

\* What does hold: the handler returns unless the kernel has panicked in
\* alloc_frame().unwrap(); it is never left spinning on ACTIVE_TABLE.
HandlerReturnsOrPanics ==
    \A c \in Ctx :
        (CowCapable /\ pc[c] = "pf_entry") ~> (pc[c] = "pf_ret" \/ panicked)

(***************************************************************************)
(* Properties of alloc_stack.                                              *)
(***************************************************************************)
StackRange(st) == {a \in ChunkAddrs : st.bottom <= a /\ a < st.top}

\* C12: every Stack returned by alloc_stack has top = bottom + 0x8000 and
\* bottom a multiple of 0x8000, and the ranges [bottom, top) of any two
\* returned stacks are disjoint.
C12_StacksAlignedDisjoint ==
    /\ \A i \in 1..Len(stacks) :
          /\ stacks[i].top = stacks[i].bottom + 32768
          /\ stacks[i].bottom % 32768 = 0
    /\ \A i, j \in 1..Len(stacks) :
          i # j => (stacks[i].top <= stacks[j].bottom
                    \/ stacks[j].top <= stacks[i].bottom)

\* Two stacks have been returned on a heap that does not start on a stack
\* boundary, the second after another object was freed.
C12_Witness ==
    /\ Len(stacks) >= 2
    /\ heap_base % STACK_ALIGN # 0
    /\ others # {}
    /\ \E a \in ChunkAddrs : a \notin chunks /\ a < stacks[2].bottom

(***************************************************************************)
(* Properties of the fd table.                                             *)
(***************************************************************************)
\* C13: a successful sys_open returns the smallest fd >= 3 that was not in
\* the fd table, inserts that key only and leaves every other entry as it
\* was; a failing sys_open leaves the fd table unchanged.
C13_OpenLowestFreeFd ==
    [][call'.name = "open"
          => IF ret'[1] = "Ok"
             THEN LET fd == ret'[2]
                  IN  /\ fd >= 3
                      /\ fd \notin DOMAIN files
                      /\ \A i \in 3..(fd - 1) : i \in DOMAIN files
                      /\ DOMAIN files' = DOMAIN files \cup {fd}
                      /\ \A f \in DOMAIN files : files'[f] = files[f]
             ELSE files' = files]_vars

\* sys_open has returned fd 3 while fd 4 was open and fd 0 was closed.
C13_Witness ==
    /\ call.name = "open"
    /\ ret = Ok(3)
    /\ 4 \in DOMAIN files
    /\ 0 \notin DOMAIN files

\* C14: sys_open calls of two threads of the process never return the same
\* fd and never lose an insertion: the fds returned so far are pairwise
\* distinct and are exactly the entries added to the fd table.
C14_ConcurrentOpensDistinct ==
    /\ \A i, j \in 1..Len(handed) : i # j => handed[i] # handed[j]
    /\ {handed[i] : i \in 1..Len(handed)} = DOMAIN files \ (0..2)
    /\ Cardinality(DOMAIN files) = 3 + Len(handed)

\* One sys_open has returned; a second holds the process lock between its
\* fd search and its insert while the other thread waits in process().
C14_Witness ==
    /\ Len(handed) = 1
    /\ \E t \in Thr : /\ tpc[t] = "insert"
                       /\ tpc[3 - t] = "lock"
                       /\ tfd[t] = Some(4)

(***************************************************************************)
(* Properties of sys_getdirentry.                                          *)
(***************************************************************************)
EntryNames(dir) == [i \in 1..Len(inodes[dir].entries) |-> inodes[dir].entries[i][1]]

\* The names read so far from one directory with an offset that started at 0
\* are its entries 0, 1, 2, ... in order, and the offset counts them.
ReadInOrder ==
    (seen.valid /\ seen.dir # None)
       => LET k == Len(seen.names)
          IN  /\ k <= Len(EntryNames(Unwrap(seen.dir)))
              /\ seen.names = SubSeq(EntryNames(Unwrap(seen.dir)), 1, k)
              /\ udentry.offset = 256 * k

\* One call: entry offset/256 is read and the offset grows by 256, or the
\* call fails and the dentry stays as it was; an index past the end is Inval.
GetdirentryStep ==
    \A fd \in FdInputs, ptr \in DentPtrs :
        SysGetdirentry(fd, ptr)
           => LET isdir == fd \in DOMAIN files /\ inodes[files[fd].inode].type = "Dir"
                  idx == udentry.offset \div 256
                  good == /\ check_mut_ptr(ptr)
                          /\ isdir
                          /\ udentry.offset % 256 = 0
                          /\ idx < Len(EntryNames(files[fd].inode))
              IN  IF good
                  THEN /\ ret' = Ok(0)
                       /\ udentry'.name = EntryNames(files[fd].inode)[idx + 1]
                       /\ udentry'.offset = udentry.offset + 256
                  ELSE /\ ret' = Err("Inval")
                       /\ udentry' = udentry

C16_Dup2 ==
    [][\A fd1 \in TableFds, fd2 \in TableFds :
         (call'.name = "dup2" /\ SysDup2(fd1, fd2))
            => IF fd2 \in DOMAIN files \/ fd1 \notin DOMAIN files
               THEN ret' = Err("Inval") /\ files' = files
               ELSE /\ ret' = Ok(0)
                    /\ DOMAIN files' = DOMAIN files \cup {fd2}
                    /\ files'[fd2] = files[fd1]
                    /\ \A f \in DOMAIN files : files'[f] = files[f]]_vars

\* sys_dup2 has copied the handle of fd 0 to another fd.
C16_Witness ==
    /\ call.name = "dup2"
    /\ ret = Ok(0)
    /\ 0 \in DOMAIN files
    /\ \E f \in DOMAIN files \ {0} : files[f] = files[0]

\* One sys_close: the entry is removed and 0 returned, or Inval.
CloseStep ==
    \A fd \in TableFds :
        (call'.fd = Some(fd) /\ SysClose(fd))
           => IF fd \in DOMAIN files
              THEN /\ ret' = Ok(0)
                   /\ DOMAIN files' = DOMAIN files \ {fd}
                   /\ \A f \in DOMAIN files' : files'[f] = files[f]
              ELSE ret' = Err("Inval") /\ files' = files

\* A sys_close of an fd closed since the last open or dup2 returns Inval.
SecondCloseStep ==
    \A fd \in call.closed :
        (call'.fd = Some(fd) /\ SysClose(fd))
           => (ret' = Err("Inval") /\ files' = files)

\* The next successful sys_open after closes returns the closed fd >= 3,
\* unless a lower fd >= 3 is free.
ReopenStep ==
    \A fd \in call.closed :
        (fd >= 3 /\ call'.name = "open" /\ ret'[1] = "Ok")
           => /\ ret'[2] <= fd
              /\ (\A i \in 3..(fd - 1) : i \in DOMAIN files) => ret'[2] = fd

\* C17: sys_close removes exactly the entry fd and returns 0 when fd is
\* open, and returns Inval with the table unchanged when it is not; a second
\* close of the fd returns Inval; a closed fd >= 3 is handed out again.
C17_Close == [][CloseStep /\ SecondCloseStep /\ ReopenStep]_vars

\* fd 3 was closed while fd 4 stayed open, and closing fd 3 again has
\* returned Inval.
C17_Witness ==
    /\ call.name = "close"
    /\ call.fd = Some(3)
    /\ 3 \in call.closed
    /\ ret = Err("Inval")
    /\ 4 \in DOMAIN files

\* What the path names before the call.
Existing(path) == Lookup(ROOT_INODE, path)

Parent(path) ==
    Lookup(ROOT_INODE, IF Len(path) = 1 THEN <<".">> ELSE SubSeq(path, 1, Len(path) - 1))

\* C18: sys_open with CREATE and EXCLUSIVE on an existing file returns
\* Exists, creates nothing and adds no fd; with CREATE alone it opens the
\* existing file; with CREATE on a missing name it creates one regular file
\* in the parent directory and opens it; without CREATE a missing path is an
\* error and nothing is created.
C18_CreateExclusive ==
    [][\A ptr \in TablePaths \ {0}, bits \in TableFlags :
         (call'.name = "open" /\ SysOpen(ptr, bits))
            => LET path == UserPaths[ptr - StrBase + 1]
                   create == (bits \div 64) % 2 = 1
                   excl == (bits \div 128) % 2 = 1
                   there == Existing(path)[1] = "Ok"
                   fresh == DOMAIN inodes' \ DOMAIN inodes
                   indir == /\ Parent(path)[1] = "Ok"
                            /\ inodes[Parent(path)[2]].type = "Dir"
               IN  CASE create /\ excl /\ there ->
                          /\ ret' = Err("Exists")
                          /\ inodes' = inodes /\ files' = files
                     [] create /\ ~excl /\ there ->
                          /\ ret'[1] = "Ok"
                          /\ inodes' = inodes
                          /\ files'[ret'[2]].inode = Existing(path)[2]
                     [] create /\ ~there /\ indir ->
                          /\ ret'[1] = "Ok"
                          /\ Cardinality(fresh) = 1
                          /\ \A n \in fresh :
                                /\ inodes'[n].type = "File"
                                /\ files'[ret'[2]].inode = n
                                /\ inodes'[Parent(path)[2]].entries =
                                      Append(inodes[Parent(path)[2]].entries,
                                             <<path[Len(path)], n>>)
                          /\ \A i \in DOMAIN inodes \ {Parent(path)[2]} :
                                inodes'[i] = inodes[i]
                     [] ~there /\ ~(create /\ indir) ->
                          /\ ret'[1] = "Err"
                          /\ inodes' = inodes /\ files' = files
                     [] OTHER -> ret'[1] = "Ok" /\ inodes' = inodes]_vars

\* sys_open with CREATE and EXCLUSIVE has returned Exists for d/a, which an
\* earlier sys_open with CREATE had made.
C18_Witness ==
    /\ call.name = "open"
    /\ ret = Err("Exists")
    /\ Existing(<<"d", "a">>)[1] = "Ok"
    /\ \E f \in DOMAIN files : files[f].inode = Existing(<<"d", "a">>)[2]

====
